---- MODULE Spec2Model ----
(***************************************************************************)
(* Model of FileOperationLogger (src/file_operation_logger.py): the        *)
(* in-memory record list, its on-disk mirror operations.json, the backup   *)
(* blobs and the files the records are about; and of two loggers on one    *)
(* log directory (src/interactive_dashboard_working.py).                   *)
(***************************************************************************)
EXTENDS Integers, Sequences, FiniteSets, TLC

\* ---------------------------------------------------------------- bounds
MaxOps == 2
MaxClock == 1

\* ------------------------------------------------------------- constants
\* os.getpid(): one value for the life of the process
Pid == 7

Types == {"create", "modify", "delete"}
Paths == {"f", "g"}

\* contents handed to the logger by its callers: a line of text ending in a
\* line feed, and a line ending in a carriage return / line feed pair
Contents == { <<"a", "LF">>, <<"a", "CR", "LF">> }

\* a file of the filesystem: present or not, and its bytes
Absent == [exists |-> FALSE, data |-> <<>>]
File(d) == [exists |-> TRUE, data |-> d]

\* ---------------------------------------------------------- text-mode I/O
\* os.linesep of the platform the scripts run on
linesep == <<"LF">>

RECURSIVE WriteText(_)
\* f.write(s) on a file opened with open(path, 'w'): "\n" becomes os.linesep
WriteText(s) ==
    IF s = <<>> THEN <<>>
    ELSE (IF Head(s) = "LF" THEN linesep ELSE <<Head(s)>>) \o WriteText(Tail(s))

RECURSIVE ReadText(_)
\* f.read() on a file opened with open(path, 'r'): universal newlines,
\* "\r\n" and "\r" both become "\n"
ReadText(b) ==
    IF b = <<>> THEN <<>>
    ELSE IF Head(b) = "CR"
         THEN IF Len(b) >= 2 /\ b[2] = "LF"
              THEN <<"LF">> \o ReadText(Tail(Tail(b)))
              ELSE <<"LF">> \o ReadText(Tail(b))
         ELSE <<Head(b)>> \o ReadText(Tail(b))

\* ------------------------------------------------------------------- ids
\* f"{type}_{datetime.now().isoformat()}_{os.getpid()}"
OperationId(type, t) == <<type, t, Pid>>

Ids == { OperationId(ty, t) : ty \in Types, t \in 0..MaxClock }
NoSuchId == <<"nonexistent", 0, 0>>

\* f"{operation_id}_content.txt" / "_backup.txt" / "_deleted.txt"
BlobName(id, suffix) == <<id, suffix>>
Suffix(type) ==
    IF type = "create" THEN "content"
    ELSE IF type = "modify" THEN "backup" ELSE "deleted"
BlobNames == { BlobName(id, Suffix(id[1])) : id \in Ids }

\* the filesystem calls that can fail in one call of the logger
\* ("open": an open(), unlink() or read() of the call raises before any byte
\* of the target changes)
Faults == {"none", "open", "save_open", "save_dump"}

\* rollback_all(since): since is None or a datetime
NoSince == [given |-> FALSE, t |-> 0]
Since(t) == [given |-> TRUE, t |-> t]

\* the connections and the send_message events of the interactive dashboard
MaxConnections == 2
MaxThreads == 2
Connections == 1..MaxConnections
Threads == 1..MaxThreads

VARIABLES
    operations,   \* self.operations
    disk,         \* operations.json
    files,        \* the files at the recorded paths
    backups,      \* the blobs of self.backups_dir
    clock,        \* what datetime.now() read last
    other,        \* self.operations of the second FileOperationLogger on
                  \* the same log directory (the one the log_* calls are
                  \* not made on)
    appended,     \* how many records the log_* calls have appended so far
    given,        \* for each record, the state of its path before the
                  \* operation, as the caller of log_* described it
    last,         \* the call on the logger that led to this state and what
                  \* it returned (NoCall after a step of the caller)
    conversations,         \* web_dashboard: monitor.conversations
    current_conversation,  \* monitor.current_conversation: the place of that
                           \* dict in conversations (0: None)
    conversations_json,    \* .claude_logs/conversations.json
    conversation_log,      \* web_dashboard: the deque conversation_log
    orchestrator,          \* interactive_dashboard_working: the global
    code_executor,         \* interactive_dashboard_working: the global
    builtins_print,        \* builtins.print
    connecting,            \* each connection's handle_connect: where it is
                           \* in init_agents and what init_agents returned
    processing             \* each process_with_autogen thread: where it is
                           \* and its local original_print

vars == <<operations, disk, files, backups, clock, other, appended, given, last,
          conversations, current_conversation, conversations_json,
          conversation_log, orchestrator, code_executor, builtins_print,
          connecting, processing>>

\* what the logger's directory holds and its ghosts
ledgerVars == <<operations, disk, files, backups, clock, other, appended, given>>
\* the state of web_dashboard's monitor
monitorVars == <<conversations, current_conversation, conversations_json,
             conversation_log>>
\* the globals of interactive_dashboard_working and its threads
interactiveVars == <<orchestrator, code_executor, builtins_print, connecting,
                 processing>>
\* what no call on a logger touches
elsewhere == <<monitorVars, interactiveVars>>

\* the logger's state as the pure operators below pass it along
State == [operations |-> operations, disk |-> disk, files |-> files, backups |-> backups]

\* op: the method; path, content, new, id, since, limit, days: its arguments
\* (content is the text the blob is written from); id: also the id a log_*
\* call returned; ok: it returned normally, and not False; raised: it raised;
\* count: what rollback_all returned; result: the list get_recent_operations
\* returned; fsfail: a filesystem call failed in it; repeat: it is a rollback
\* of the id whose rollback returned True in the step before; absent: it is a
\* rollback that found a record whose file did not exist
NoCall == [op |-> "none", path |-> "", content |-> <<>>, new |-> <<>>,
           id |-> NoSuchId, since |-> NoSince, limit |-> 0, days |-> 0,
           ok |-> FALSE, raised |-> FALSE, count |-> 0, result |-> <<>>,
           fsfail |-> FALSE, repeat |-> FALSE, absent |-> FALSE]

Init ==
    /\ operations = <<>>
    /\ disk = [state |-> "absent", ops |-> <<>>, due |-> <<>>]
    /\ files = [p \in Paths |-> Absent]
    /\ backups = [b \in BlobNames |-> Absent]
    /\ clock = 0
    /\ other = <<>>
    /\ appended = 0
    /\ given = <<>>
    /\ last = NoCall
    /\ conversations = <<>>
    /\ current_conversation = 0
    /\ conversations_json = [exists |-> FALSE, conversations |-> <<>>]
    /\ conversation_log = <<>>
    /\ orchestrator = "None"
    /\ code_executor = "None"
    /\ builtins_print = "print"
    /\ connecting = [c \in Connections |-> "idle"]
    /\ processing = [t \in Threads |-> [pc |-> "idle", original_print |-> "unbound"]]

\* ------------------------------------------------------------- _save_log
\* operations.json is "absent", "ok" (it holds the JSON text of the list
\* ops) or "corrupt" (it holds no JSON text: it is empty or cut short, or a
\* shorter text was written over a longer one); due is <<l>> while a writer
\* that has opened the file for writing has still to dump its list l, else
\* <<>>.
\* open(self.log_file, 'w') empties the file
Truncated(dsk) == [state |-> "corrupt", ops |-> <<>>, due |-> dsk.due]

\* a save that writes the newest record alone
SaveLogNewest(ops, dsk, fault) ==
    [disk |-> [state |-> "ok",
               ops |-> IF ops = <<>> THEN ops ELSE <<ops[Len(ops)]>>,
               due |-> dsk.due],
     raised |-> FALSE]

\* open(self.log_file, 'w') and json.dump: the whole list replaces the file.
\* A failing open leaves the file as it was; a failing dump leaves the
\* truncated file with part of the JSON text; "preempt" is no failure: the
\* writer is descheduled between the open and the dump.
SaveLog(ops, dsk, fault) ==
    IF fault = "save_open" THEN [disk |-> dsk, raised |-> TRUE]
    ELSE IF fault = "save_dump"
         THEN [disk |-> Truncated(dsk), raised |-> TRUE]
         ELSE IF fault = "preempt"
         THEN [disk |-> [Truncated(dsk) EXCEPT !.due = <<ops>>], raised |-> FALSE]
         ELSE [disk |-> [state |-> "ok", ops |-> ops, due |-> dsk.due],
               raised |-> FALSE]

\* the characters json.dump(..., indent=2) writes for one record, the value
\* of rolled_back apart: the dict of log_create and of log_delete has seven
\* keys, that of log_modify nine (measured for a path of 21 characters, a pid
\* of 4 digits and hashes of 20 characters)
CreateLen == 246
ModifyLen == 319

\* json.dump writes True as true and False as false
FlagLen(b) == IF b THEN 4 ELSE 5

RecordLen(r) ==
    (IF r.type = "modify" THEN ModifyLen ELSE CreateLen) + FlagLen(r.rolled_back)

RECURSIVE RecordsLen(_)
RecordsLen(ops) ==
    IF ops = <<>> THEN 0 ELSE RecordLen(Head(ops)) + RecordsLen(Tail(ops))

\* the length of the text json.dump(ops, f, indent=2) writes: "[]", or the
\* brackets, the records and the line ends and commas between them
JsonLen(ops) ==
    IF ops = <<>> THEN 2 ELSE 2 + RecordsLen(ops) + 2 * Len(ops)

\* json.dump of a writer that opened the file before another writer wrote to
\* it: its text goes over the start of what the file holds now, and what
\* lies beyond its end stays
Dump(dsk) ==
    IF dsk.state = "ok" /\ JsonLen(dsk.due[1]) < JsonLen(dsk.ops)
    THEN [state |-> "corrupt", ops |-> <<>>, due |-> <<>>]
    ELSE [state |-> "ok", ops |-> dsk.due[1], due |-> <<>>]

\* with open(path, 'w') as f: f.write(text), on the file `old`
WriteFileText(old, text, fault) ==
    IF fault = "open" THEN [file |-> old, raised |-> TRUE]
    ELSE [file |-> File(WriteText(text)), raised |-> FALSE]

\* ------------------------------------------------- the records of log_*
\* (content_hash = hash(content) is written and never read: left out)
CreateRecord(id, path, ts, content) ==
    [id |-> id, type |-> "create", filepath |-> path, timestamp |-> ts,
     size |-> Len(content), rolled_back |-> FALSE]

ModifyRecord(id, path, ts, old_content, new_content) ==
    [id |-> id, type |-> "modify", filepath |-> path, timestamp |-> ts,
     old_size |-> Len(old_content), new_size |-> Len(new_content),
     rolled_back |-> FALSE]

DeleteRecord(id, path, ts, content) ==
    [id |-> id, type |-> "delete", filepath |-> path, timestamp |-> ts,
     size |-> Len(content), rolled_back |-> FALSE]

\* the dict a log_* call builds, told from every other by the number of the
\* append that puts it on the list (serial is no key of the dict: two dicts
\* with equal keys and values are still two records)
Numbered(record, n) == record @@ [serial |-> n]

\* a tail that appends and saves the record first and writes the blob last
LogOperationRecordFirst(st, record, blob, content, fault) ==
    LET ops2 == Append(st.operations, record)
        sv == SaveLog(ops2, st.disk, fault)
        st1 == [st EXCEPT !.operations = ops2, !.disk = sv.disk]
        w == WriteFileText(st.backups[blob], content, fault)
    IN  IF sv.raised THEN [st |-> st1, raised |-> TRUE]
        ELSE [st |-> [st1 EXCEPT !.backups[blob] = w.file], raised |-> w.raised]

\* the common tail of log_create / log_modify / log_delete: write the blob,
\* append the record, save the list
LogOperation(st, record, blob, content, fault) ==
    LET w == WriteFileText(st.backups[blob], content, fault)
        st1 == [st EXCEPT !.backups[blob] = w.file]
    IN  IF w.raised THEN [st |-> st1, raised |-> TRUE]
        ELSE LET ops2 == Append(st.operations, record)
                 sv == SaveLog(ops2, st.disk, fault)
             IN  [st |-> [st1 EXCEPT !.operations = ops2, !.disk = sv.disk],
                  raised |-> sv.raised]

\* -------------------------------------------------------------- rollback
\* a lookup that falls back on the oldest record when no record has the id
FindOperationOrOldest(ops, id) ==
    IF \E i \in 1..Len(ops) : ops[i].id = id
    THEN CHOOSE i \in 1..Len(ops) :
            /\ ops[i].id = id
            /\ \A j \in 1..(i - 1) : ops[j].id # id
    ELSE IF Len(ops) > 0 THEN 1 ELSE 0

\* for op in self.operations: if op["id"] == operation_id: ... break
\* (0 when no record has the id)
FindOperation(ops, id) ==
    IF \E i \in 1..Len(ops) : ops[i].id = id
    THEN CHOOSE i \in 1..Len(ops) :
            /\ ops[i].id = id
            /\ \A j \in 1..(i - 1) : ops[j].id # id
    ELSE 0

\* restoring a blob: read it in text mode, write it to filepath in text mode;
\* nothing happens when the blob does not exist
RestoreBlob(st, filepath, blob, fault) ==
    IF ~st.backups[blob].exists THEN [files |-> st.files, raised |-> FALSE]
    ELSE LET w == WriteFileText(st.files[filepath], ReadText(st.backups[blob].data), fault)
         IN  [files |-> [st.files EXCEPT ![filepath] = w.file], raised |-> w.raised]

\* an inverse action whose create branch unlinks without asking whether the
\* file exists: unlink raises when it does not
InverseActionUnlinkAlways(st, op, operation_id, fault) ==
    IF op.type = "create"
    THEN IF st.files[op.filepath].exists /\ fault # "open"
         THEN [files |-> [st.files EXCEPT ![op.filepath] = Absent], raised |-> FALSE]
         ELSE [files |-> st.files, raised |-> TRUE]
    ELSE IF op.type = "modify"
    THEN RestoreBlob(st, op.filepath, BlobName(operation_id, "backup"), fault)
    ELSE RestoreBlob(st, op.filepath, BlobName(operation_id, "deleted"), fault)

\* the inverse filesystem action of one record (the body of the try block
\* before the record is marked)
InverseAction(st, op, operation_id, fault) ==
    IF op.type = "create"
    THEN IF st.files[op.filepath].exists
         THEN IF fault = "open"
              THEN [files |-> st.files, raised |-> TRUE]
              ELSE [files |-> [st.files EXCEPT ![op.filepath] = Absent], raised |-> FALSE]
         ELSE [files |-> st.files, raised |-> FALSE]
    ELSE IF op.type = "modify"
    THEN RestoreBlob(st, op.filepath, BlobName(operation_id, "backup"), fault)
    ELSE RestoreBlob(st, op.filepath, BlobName(operation_id, "deleted"), fault)

\* a guard that lets every record through
NeverRolledBack(operation) == FALSE

\* if operation["rolled_back"]: ... return False
AlreadyRolledBack(operation) == operation.rolled_back

\* a marking that takes the mark off every other record
MarkOnlyThis(ops, i) ==
    [j \in 1..Len(ops) |-> [ops[j] EXCEPT !.rolled_back = (j = i)]]

\* operation["rolled_back"] = True
MarkRolledBack(ops, i) == [ops EXCEPT ![i].rolled_back = TRUE]

\* a rollback whose mark and save stand after the try block: what _save_log
\* raises reaches the caller
RollbackOpUncaught(st, operation_id, fault) ==
    LET i == FindOperation(st.operations, operation_id)
    IN  IF i = 0
        THEN [st |-> st, ret |-> FALSE, fsfail |-> FALSE, raised |-> FALSE]
        ELSE IF AlreadyRolledBack(st.operations[i])
        THEN [st |-> st, ret |-> FALSE, fsfail |-> FALSE, raised |-> FALSE]
        ELSE LET inv == InverseAction(st, st.operations[i], operation_id, fault)
             IN  IF inv.raised
                 THEN [st |-> [st EXCEPT !.files = inv.files], ret |-> FALSE,
                       fsfail |-> TRUE, raised |-> FALSE]
                 ELSE LET ops2 == MarkRolledBack(st.operations, i)
                          sv == SaveLog(ops2, st.disk, fault)
                      IN  [st |-> [st EXCEPT !.files = inv.files,
                                             !.operations = ops2,
                                             !.disk = sv.disk],
                           ret |-> ~sv.raised, fsfail |-> sv.raised,
                           raised |-> sv.raised]

\* rollback(operation_id): the state it leaves, the boolean it returns (ret),
\* whether a filesystem call failed in it (fsfail) and whether it raised:
\* the except clause turns what the try block raises into a return of False
RollbackOp(st, operation_id, fault) ==
    LET i == FindOperation(st.operations, operation_id)
    IN  IF i = 0
        THEN [st |-> st, ret |-> FALSE, fsfail |-> FALSE, raised |-> FALSE]
        ELSE IF AlreadyRolledBack(st.operations[i])
        THEN [st |-> st, ret |-> FALSE, fsfail |-> FALSE, raised |-> FALSE]
        ELSE LET inv == InverseAction(st, st.operations[i], operation_id, fault)
             IN  IF inv.raised
                 THEN [st |-> [st EXCEPT !.files = inv.files], ret |-> FALSE,
                       fsfail |-> TRUE, raised |-> FALSE]
                 ELSE LET ops2 == MarkRolledBack(st.operations, i)
                          sv == SaveLog(ops2, st.disk, fault)
                      IN  [st |-> [st EXCEPT !.files = inv.files,
                                             !.operations = ops2,
                                             !.disk = sv.disk],
                           ret |-> ~sv.raised, fsfail |-> sv.raised,
                           raised |-> FALSE]

RECURSIVE RollbackAllFrom(_, _, _, _, _, _, _)
\* for operation in reversed(self.operations): the loop from index i down,
\* with filesystem fault `fault` striking the rollback of index k
RollbackAllFrom(st, i, since, k, fault, rolled_back, fsfail) ==
    IF i = 0
    THEN [st |-> st, count |-> rolled_back, fsfail |-> fsfail, raised |-> FALSE]
    ELSE LET operation == st.operations[i]
         IN  IF operation.rolled_back
             THEN RollbackAllFrom(st, i - 1, since, k, fault, rolled_back, fsfail)
             ELSE IF since.given /\ operation.timestamp < since.t
             THEN RollbackAllFrom(st, i - 1, since, k, fault, rolled_back, fsfail)
             ELSE LET r == RollbackOp(st, operation.id, IF i = k THEN fault ELSE "none")
                  IN  IF r.raised
                      THEN [st |-> r.st, count |-> rolled_back, fsfail |-> TRUE,
                            raised |-> TRUE]
                      ELSE RollbackAllFrom(r.st, i - 1, since, k, fault,
                                           IF r.ret THEN rolled_back + 1 ELSE rolled_back,
                                           fsfail \/ r.fsfail)

\* ------------------------------------------------- get_recent_operations
\* s[start:] of a Python list: a negative start counts from the end, and a
\* start beyond either end is brought back to that end
SliceFrom(s, start) ==
    LET n == Len(s)
        lo == IF start < 0
              THEN (IF start + n < 0 THEN 0 ELSE start + n)
              ELSE (IF start > n THEN n ELSE start)
    IN  SubSeq(s, lo + 1, n)

\* return self.operations[-limit:]
GetRecentOperations(ops, limit) == SliceFrom(ops, 0 - limit)

\* -------------------------------------------------------- clear_old_logs
\* datetime.now().timestamp() - (days * 24 * 60 * 60): the clock counts days
Cutoff(now, days) == now - days

\* backup_file.stat().st_mtime: a blob is written by the log_* call that
\* read the clock for its name, within the same reading
st_mtime(blob) == blob[1][2]

\* if datetime.fromisoformat(op["timestamp"]).timestamp() > cutoff
KeepRecord(op, cutoff) == op.timestamp > cutoff

\* if backup_file.stat().st_mtime < cutoff: backup_file.unlink()
OldBackup(blob, cutoff) == st_mtime(blob) < cutoff

\* clear_old_logs with the cutoff computed: filter the list, save it, then
\* unlink the old blobs (a failing unlink raises at the first of them)
ClearOldLogs(st, cutoff, fault) ==
    LET ops2 == SelectSeq(st.operations, LAMBDA op : KeepRecord(op, cutoff))
        sv == SaveLog(ops2, st.disk, fault)
        st1 == [st EXCEPT !.operations = ops2, !.disk = sv.disk]
        old == { b \in BlobNames : st.backups[b].exists /\ OldBackup(b, cutoff) }
    IN  IF sv.raised THEN [st |-> st1, raised |-> TRUE]
        ELSE IF old # {} /\ fault = "open" THEN [st |-> st1, raised |-> TRUE]
        ELSE [st |-> [st1 EXCEPT !.backups =
                         [b \in BlobNames |->
                             IF b \in old THEN Absent ELSE st.backups[b]]],
              raised |-> FALSE]

\* -------------------------------------------------------------- __init__
\* a load with no except clause: what open or json.load raises reaches the
\* caller
LoadLogUncaught(dsk, fault) ==
    IF dsk.state = "absent" THEN [ops |-> <<>>, raised |-> FALSE]
    ELSE IF fault = "open" \/ dsk.state = "corrupt"
         THEN [ops |-> <<>>, raised |-> TRUE]
         ELSE [ops |-> dsk.ops, raised |-> FALSE]

\* if self.log_file.exists(): try: json.load(f) except: self.operations = []
\* (both mkdir calls find the directories of the first construction)
LoadLog(dsk, fault) ==
    IF dsk.state = "absent" THEN [ops |-> <<>>, raised |-> FALSE]
    ELSE IF fault = "open" \/ dsk.state = "corrupt"
         THEN [ops |-> <<>>, raised |-> FALSE]
         ELSE [ops |-> dsk.ops, raised |-> FALSE]

\* --------------------------------------------------------------- actions
\* the writer was descheduled in the _save_log of this call: the calls that
\* follow are the other writer's, until the dump is done
Preempted(st) == st.disk.due # <<>> /\ disk.due = <<>>

Install(st) ==
    /\ operations' = IF Preempted(st) THEN other ELSE st.operations
    /\ other' = IF Preempted(st) THEN st.operations ELSE other
    /\ disk' = st.disk
    /\ files' = st.files
    /\ backups' = st.backups
    /\ UNCHANGED elsewhere

\* what `given` holds for a record no log_* call of the writer now called
\* has described
NoGiven == [exists |-> FALSE, data |-> <<"unknown">>]
Undescribed(ops) == [i \in 1..Len(ops) |-> NoGiven]

\* given after a call that leaves the state st and would leave g
Given(st, g) == IF Preempted(st) THEN Undescribed(other) ELSE g

\* the caller's own file action before it logs it: open(path, 'w').write(c)
WriteFile(p, c) ==
    /\ files' = [files EXCEPT ![p] = File(WriteText(c))]
    /\ last' = NoCall
    /\ UNCHANGED <<operations, disk, backups, clock, other, appended, given, elsewhere>>

\* the caller's own file action: os.unlink(path) of an existing file
RemoveFile(p) ==
    /\ files[p].exists
    /\ files' = [files EXCEPT ![p] = Absent]
    /\ last' = NoCall
    /\ UNCHANGED <<operations, disk, backups, clock, other, appended, given, elsewhere>>

\* the two readings of datetime.now() in one log_* call, the id's and the
\* timestamp's: the clock has not gone back since it was last read, and both
\* readings of the call fall in the same value of it
Readings == { <<t, t>> : t \in clock..MaxClock }

LogCall(name, r, path, content, new, before, id, t2) ==
    /\ Install(r.st)
    /\ clock' = t2
    /\ appended' = IF Len(r.st.operations) > Len(operations)
                   THEN appended + 1 ELSE appended
    /\ given' = Given(r.st, IF Len(r.st.operations) > Len(operations)
                             THEN Append(given, before) ELSE given)
    /\ last' = [NoCall EXCEPT !.op = name, !.path = path, !.content = content,
                              !.new = new, !.id = id, !.ok = ~r.raised,
                              !.raised = r.raised, !.fsfail = r.raised]

log_create(filepath, content, fault) ==
    /\ appended < MaxOps
    /\ \E tt \in Readings :
         LET operation_id == OperationId("create", tt[1])
             r == LogOperation(State,
                               Numbered(CreateRecord(operation_id, filepath,
                                                     tt[2], content),
                                        appended + 1),
                               BlobName(operation_id, "content"), content, fault)
         IN  LogCall("log_create", r, filepath, content, <<>>, Absent,
                     operation_id, tt[2])

log_modify(filepath, old_content, new_content, fault) ==
    /\ appended < MaxOps
    /\ \E tt \in Readings :
         LET operation_id == OperationId("modify", tt[1])
             r == LogOperation(State,
                               Numbered(ModifyRecord(operation_id, filepath,
                                                     tt[2], old_content,
                                                     new_content),
                                        appended + 1),
                               BlobName(operation_id, "backup"), old_content, fault)
         IN  LogCall("log_modify", r, filepath, old_content, new_content,
                     File(old_content), operation_id, tt[2])

log_delete(filepath, content, fault) ==
    /\ appended < MaxOps
    /\ \E tt \in Readings :
         LET operation_id == OperationId("delete", tt[1])
             r == LogOperation(State,
                               Numbered(DeleteRecord(operation_id, filepath,
                                                     tt[2], content),
                                        appended + 1),
                               BlobName(operation_id, "deleted"), content, fault)
         IN  LogCall("log_delete", r, filepath, content, <<>>, File(content),
                     operation_id, tt[2])

rollback(operation_id, fault) ==
    LET r == RollbackOp(State, operation_id, fault)
    IN  /\ Install(r.st)
        /\ last' = [NoCall EXCEPT !.op = "rollback", !.id = operation_id,
                                  !.ok = r.ret, !.fsfail = r.fsfail,
                                  !.raised = r.raised,
                                  !.repeat = (last.op = "rollback" /\ last.ok
                                              /\ last.id = operation_id),
                                  !.absent =
                                     LET i == FindOperation(operations, operation_id)
                                     IN  /\ i # 0
                                         /\ ~files[operations[i].filepath].exists]
        /\ given' = Given(r.st, given)
        /\ UNCHANGED <<clock, appended>>

\* rollback_all(since), with filesystem fault `fault` striking the rollback
\* of the record at index k (k = 0: no call fails)
rollback_all(since, k, fault) ==
    /\ (k = 0) = (fault = "none")
    /\ LET r == RollbackAllFrom(State, Len(operations), since, k, fault, 0, FALSE)
       IN  /\ Install(r.st)
           /\ last' = [NoCall EXCEPT !.op = "rollback_all", !.since = since,
                                     !.ok = ~r.raised, !.count = r.count,
                                     !.fsfail = r.fsfail, !.raised = r.raised]
           /\ UNCHANGED <<clock, appended, given>>

get_recent_operations(limit) ==
    /\ last' = [NoCall EXCEPT !.op = "get_recent_operations", !.limit = limit,
                              !.ok = TRUE,
                              !.result = GetRecentOperations(operations, limit)]
    /\ UNCHANGED <<operations, disk, files, backups, clock, other, appended, given, elsewhere>>

clear_old_logs(days, fault) ==
    \E now \in clock..MaxClock :
       LET r == ClearOldLogs(State, Cutoff(now, days), fault)
           kept == { i \in 1..Len(operations) :
                       KeepRecord(operations[i], Cutoff(now, days)) }
       IN  /\ Install(r.st)
           /\ clock' = now
           /\ given' = IF Len(given) = Len(operations)
                       THEN SubSeq(given, Len(given) - Cardinality(kept) + 1, Len(given))
                       ELSE Undescribed(r.st.operations)
           /\ last' = [NoCall EXCEPT !.op = "clear_old_logs", !.days = days,
                                     !.ok = ~r.raised, !.raised = r.raised,
                                     !.fsfail = r.raised]
           /\ UNCHANGED appended

\* FileOperationLogger(): a new logger on the log directory takes the place
\* of the one the calls were made on
FileOperationLogger(fault) ==
    LET r == LoadLog(disk, fault)
    IN  /\ operations' = r.ops
        /\ given' = Undescribed(r.ops)
        /\ last' = [NoCall EXCEPT !.op = "FileOperationLogger",
                                  !.ok = ~r.raised, !.raised = r.raised,
                                  !.fsfail = (fault = "open" /\ disk.state # "absent")]
        /\ UNCHANGED <<disk, files, backups, clock, other, appended, elsewhere>>

\* the next calls are made on the other logger of the log directory
Switch ==
    /\ disk.due = <<>>
    /\ operations' = other
    /\ other' = operations
    /\ given' = Undescribed(other)
    /\ last' = NoCall
    /\ UNCHANGED <<disk, files, backups, clock, appended, elsewhere>>

\* the writer descheduled in _save_log runs again: json.dump and the close
json_dump ==
    /\ disk.due # <<>>
    /\ disk' = Dump(disk)
    /\ last' = [NoCall EXCEPT !.op = "json_dump", !.ok = TRUE]
    /\ UNCHANGED <<operations, files, backups, clock, other, appended, given, elsewhere>>

\* the ids a caller passes to rollback: those it was given, and one that
\* names no record
RollbackArgs == { operations[i].id : i \in 1..Len(operations) } \cup {NoSuchId}
SinceArgs == {NoSince} \cup { Since(t) : t \in 0..MaxClock }

\* the steps of the program on the paths P with the contents C when the
\* filesystem calls fail as F allows
NextWith(F, P, C) ==
    \/ \E p \in P, c \in C : WriteFile(p, c)
    \/ \E p \in P : RemoveFile(p)
    \/ \E p \in P, c \in C, fault \in F : log_create(p, c, fault)
    \/ \E p \in P, old \in C, new \in C, fault \in F :
          log_modify(p, old, new, fault)
    \/ \E p \in P, c \in C, fault \in F : log_delete(p, c, fault)
    \/ \E id \in RollbackArgs, fault \in F : rollback(id, fault)
    \/ \E since \in SinceArgs, k \in 0..Len(operations), fault \in F \ {"preempt"} :
          rollback_all(since, k, fault)

\* the arguments of get_recent_operations and clear_old_logs
LimitArgs == 0..(MaxOps + 1)
DaysArgs == 0..MaxClock

\* the same steps, and the pruning and a new logger
NextMore(F, P, C) ==
    \/ NextWith(F, P, C)
    \/ \E days \in DaysArgs, fault \in F \ {"preempt"} : clear_old_logs(days, fault)
    \/ \E fault \in F \cap {"none", "open"} : FileOperationLogger(fault)

\* no filesystem call fails
Next == NextWith({"none"}, Paths, Contents)
Spec == Init /\ [][Next]_vars

\* one path and one content; any one filesystem call of a call on the
\* logger may fail
NextFault == NextWith(Faults, {"f"}, {<<"a", "CR", "LF">>})
SpecFault == Init /\ [][NextFault]_vars

\* one path and one content, no filesystem call fails
NextSmall == NextWith({"none"}, {"f"}, {<<"a", "CR", "LF">>})
SpecSmall == Init /\ [][NextSmall]_vars

\* one path and one content, with the pruning, a new logger and the
\* queries; no filesystem call fails
NextLedger ==
    \/ NextMore({"none"}, {"f"}, {<<"a", "CR", "LF">>})
    \/ \E limit \in LimitArgs : get_recent_operations(limit)
SpecLedger == Init /\ [][NextLedger]_vars

\* one path and one content, with the pruning and a new logger; any one
\* filesystem call of a call on the logger may fail
NextLedgerFault == NextMore(Faults, {"f"}, {<<"a", "CR", "LF">>})
SpecLedgerFault == Init /\ [][NextLedgerFault]_vars

\* the log_* calls alone, on the path "f" with one content
LogCalls(F) ==
    \/ \E fault \in F : log_create("f", <<"a", "CR", "LF">>, fault)
    \/ \E fault \in F :
          log_modify("f", <<"a", "CR", "LF">>, <<"a", "CR", "LF">>, fault)
    \/ \E fault \in F : log_delete("f", <<"a", "CR", "LF">>, fault)

\* one logger that logs, rolls back and prunes; the caller touches no file
\* itself and no filesystem call fails
NextMarks ==
    \/ LogCalls({"none"})
    \/ \E id \in RollbackArgs : rollback(id, "none")
    \/ \E since \in SinceArgs : rollback_all(since, 0, "none")
    \/ \E days \in DaysArgs : clear_old_logs(days, "none")
SpecMarks == Init /\ [][NextMarks]_vars

\* the same logger, and the query
NextFrame ==
    \/ NextMarks
    \/ \E limit \in LimitArgs : get_recent_operations(limit)
SpecFrame == Init /\ [][NextFrame]_vars

\* the log_* calls succeed; any one filesystem call of a rollback, alone or
\* within rollback_all(), may fail
NextRollbackFault ==
    \/ LogCalls({"none"})
    \/ \E id \in RollbackArgs, fault \in Faults : rollback(id, fault)
    \/ \E k \in 0..Len(operations), fault \in Faults :
          rollback_all(NoSince, k, fault)
SpecRollbackFault == Init /\ [][NextRollbackFault]_vars

\* the log_* calls, the pruning and a new logger, when any one filesystem
\* call of a call may fail (a process that stops there and starts again)
NextCrash ==
    \/ LogCalls(Faults)
    \/ \E days \in DaysArgs, fault \in Faults : clear_old_logs(days, fault)
    \/ \E fault \in {"none", "open"} : FileOperationLogger(fault)
SpecCrash == Init /\ [][NextCrash]_vars

\* _save_log may be left between its open and its dump while no other save
\* is
Schedules == IF disk.due = <<>> THEN {"none", "preempt"} ELSE {"none"}

\* two loggers on one log directory, one path and one content; no
\* filesystem call fails
NextTwo ==
    \/ NextWith(Schedules, {"f"}, {<<"a", "CR", "LF">>})
    \/ FileOperationLogger("none")
    \/ Switch
    \/ json_dump
SpecTwo == Init /\ [][NextTwo]_vars

\* ------------------------------------------------ the dashboard's logger
\* web_dashboard.file_logger is built when the module is loaded, on the log
\* directory the agents' loggers use; in the steps below `other` is its
\* self.operations and `operations` that of the logger the agents log
\* through.
DashboardLimit == 50

\* GET /api/file-operations
get_file_operations ==
    /\ last' = [NoCall EXCEPT !.op = "get_file_operations",
                              !.limit = DashboardLimit, !.ok = TRUE,
                              !.result = GetRecentOperations(other, DashboardLimit)]
    /\ UNCHANGED <<operations, disk, files, backups, clock, other, appended, given, elsewhere>>

\* POST /api/rollback/<op_id>: success is what rollback returns
rollback_operation(op_id) ==
    LET r == RollbackOp([State EXCEPT !.operations = other], op_id, "none")
    IN  /\ other' = r.st.operations
        /\ disk' = r.st.disk
        /\ files' = r.st.files
        /\ backups' = r.st.backups
        /\ last' = [NoCall EXCEPT !.op = "rollback_operation", !.id = op_id,
                                  !.ok = r.ret]
        /\ UNCHANGED <<operations, clock, appended, given, elsewhere>>

\* the agents log and roll back through their logger, test_dashboard builds
\* a new one, and the dashboard serves its two routes; no filesystem call
\* fails
NextDashboard ==
    \/ NextWith({"none"}, {"f"}, {<<"a", "CR", "LF">>})
    \/ FileOperationLogger("none")
    \/ get_file_operations
    \/ \E op_id \in RollbackArgs : rollback_operation(op_id)
SpecDashboard == Init /\ [][NextDashboard]_vars

\* ------------------------------------------------- claude_code_generator
\* the two branches that write files: "exec" runs a code block that opens
\* `filename` for writing and writes `code` to it, and logs the files the
\* directory listing shows as new; "named" writes the block itself to the
\* filename chosen from the prompt and logs it
Branches == {"exec", "named"}

claude_code_generator(branch, filename, code) ==
    LET written == [files EXCEPT ![filename] = File(WriteText(code))]
        new_files == { q \in Paths : written[q].exists /\ ~files[q].exists }
    IN  IF branch = "exec" /\ filename \notin new_files
        THEN /\ files' = written
             /\ last' = [NoCall EXCEPT !.op = "claude_code_generator",
                                       !.path = filename, !.ok = TRUE]
             /\ UNCHANGED <<operations, disk, backups, clock, other, appended, given, elsewhere>>
        ELSE /\ appended < MaxOps
             /\ \E tt \in Readings :
                  LET content == IF branch = "exec"
                                 THEN ReadText(written[filename].data)
                                 ELSE code
                      operation_id == OperationId("create", tt[1])
                      r == LogOperation([State EXCEPT !.files = written],
                                        Numbered(CreateRecord(operation_id, filename,
                                                              tt[2], content),
                                                 appended + 1),
                                        BlobName(operation_id, "content"), content,
                                        "none")
                  IN  LogCall("claude_code_generator", r, filename, content, <<>>,
                              Absent, operation_id, tt[2])

\* the generator, and a caller that writes and removes files and rolls
\* records back; one path and one content, no filesystem call fails
NextGenerator ==
    \/ \E branch \in Branches :
          claude_code_generator(branch, "f", <<"a", "CR", "LF">>)
    \/ WriteFile("f", <<"a", "LF">>)
    \/ RemoveFile("f")
    \/ \E id \in RollbackArgs : rollback(id, "none")
SpecGenerator == Init /\ [][NextGenerator]_vars

\* --------------------------------------------------- ConversationMonitor
\* (the id and the start_time, end_time and timestamp readings of the clock
\* are written and read by no method of the monitor: left out, as is the
\* file_operations list, which nothing appends to)
MaxConversations == 2
MaxMessages == 2
Agents == {"GPT-4", "Claude"}

\* the monitor as the operators below pass it along
Monitor == [conversations |-> conversations,
            current_conversation |-> current_conversation,
            conversations_json |-> conversations_json]

\* save_conversations: json.dump of the whole list
SaveConversations(m) ==
    [m EXCEPT !.conversations_json =
                 [exists |-> TRUE, conversations |-> m.conversations]]

\* start_conversation: the new dict becomes the current one and is appended
StartConversation(m, agents) ==
    [m EXCEPT !.conversations =
                 Append(m.conversations,
                        [agents |-> agents, messages |-> <<>>, status |-> "active"]),
              !.current_conversation = Len(m.conversations) + 1]

\* add_message: nothing when there is no current conversation
AddMessage(m, agent, content, message_type) ==
    IF m.current_conversation = 0 THEN m
    ELSE SaveConversations(
            [m EXCEPT !.conversations[m.current_conversation].messages =
                         Append(@, [agent |-> agent, content |-> content,
                                    type |-> message_type])])

\* end_conversation: nothing when there is no current conversation
EndConversation(m) ==
    IF m.current_conversation = 0 THEN m
    ELSE SaveConversations(
            [m EXCEPT !.conversations[m.current_conversation].status = "completed"])

\* the monitor after a call
InstallMonitor(m) ==
    /\ conversations' = m.conversations
    /\ current_conversation' = m.current_conversation
    /\ conversations_json' = m.conversations_json

\* no conversation and no message beyond the bounds
WithinBounds(m) ==
    /\ Len(m.conversations) <= MaxConversations
    /\ \A i \in 1..Len(m.conversations) :
          Len(m.conversations[i].messages) <= MaxMessages

start_conversation(agents) ==
    LET m == StartConversation(Monitor, agents)
    IN  /\ WithinBounds(m)
        /\ InstallMonitor(m)
        /\ last' = [NoCall EXCEPT !.op = "start_conversation", !.ok = TRUE]
        /\ UNCHANGED <<ledgerVars, conversation_log, interactiveVars>>

add_message(agent, content) ==
    LET m == AddMessage(Monitor, agent, content, "message")
    IN  /\ WithinBounds(m)
        /\ InstallMonitor(m)
        /\ last' = [NoCall EXCEPT !.op = "add_message",
                                  !.ok = (current_conversation # 0)]
        /\ UNCHANGED <<ledgerVars, conversation_log, interactiveVars>>

end_conversation ==
    /\ InstallMonitor(EndConversation(Monitor))
    /\ last' = [NoCall EXCEPT !.op = "end_conversation", !.ok = TRUE]
    /\ UNCHANGED <<ledgerVars, conversation_log, interactiveVars>>

\* log_agent_message: start a conversation when there is no current one,
\* add the message, append it to conversation_log
log_agent_message(agent_name, message) ==
    LET m0 == IF current_conversation = 0
              THEN StartConversation(Monitor, <<agent_name>>)
              ELSE Monitor
        m == AddMessage(m0, agent_name, message, "message")
    IN  /\ WithinBounds(m)
        /\ InstallMonitor(m)
        /\ conversation_log' =
              Append(conversation_log,
                     [agent |-> agent_name, message |-> message, type |-> "message"])
        /\ last' = [NoCall EXCEPT !.op = "log_agent_message", !.ok = TRUE]
        /\ UNCHANGED <<ledgerVars, interactiveVars>>

\* GET /api/stats: active_conversations, the number of conversations whose
\* status is "active"
get_stats ==
    /\ last' = [NoCall EXCEPT !.op = "get_stats", !.ok = TRUE,
                              !.count = Cardinality({ i \in 1..Len(conversations) :
                                           conversations[i].status = "active" })]
    /\ UNCHANGED <<ledgerVars, monitorVars, interactiveVars>>

\* web_dashboard's monitor and the callers of test_dashboard
NextMonitor ==
    \/ \E agent \in Agents : start_conversation(<<agent>>)
    \/ \E agent \in Agents : add_message(agent, "m")
    \/ \E agent \in Agents : log_agent_message(agent, "m")
    \/ end_conversation
    \/ get_stats
SpecMonitor == Init /\ [][NextMonitor]_vars

\* ------------------------------------------ interactive_dashboard_working
\* socketio runs with async_mode='threading': each event handler and each
\* process_with_autogen runs on a thread of its own, and the steps below are
\* the places where the threads read or write what they share.

\* handle_connect of connection c: init_agents is entered when orchestrator
\* is None
handle_connect(c) ==
    /\ connecting[c] = "idle"
    /\ connecting' = [connecting EXCEPT ![c] =
                         IF orchestrator = "None" THEN "init_agents" ELSE "connected"]
    /\ last' = NoCall
    /\ UNCHANGED <<ledgerVars, monitorVars, orchestrator, code_executor,
                   builtins_print, processing>>

\* init_agents up to `orchestrator = AssistantAgent(...)`: no API key, or the
\* constructor raises, and init_agents returns False
AssistantAgent(c, raises) ==
    /\ connecting[c] = "init_agents"
    /\ orchestrator' = IF raises THEN orchestrator ELSE "Orchestrator"
    /\ connecting' = [connecting EXCEPT ![c] =
                         IF raises THEN "False" ELSE "orchestrator"]
    /\ last' = NoCall
    /\ UNCHANGED <<ledgerVars, monitorVars, code_executor, builtins_print,
                   processing>>

\* `code_executor = UserProxyAgent(...)`: a new agent with no function
\* registered
UserProxyAgent(c, raises) ==
    /\ connecting[c] = "orchestrator"
    /\ code_executor' = IF raises THEN code_executor ELSE "CodeExecutor"
    /\ connecting' = [connecting EXCEPT ![c] =
                         IF raises THEN "False" ELSE "code_executor"]
    /\ last' = NoCall
    /\ UNCHANGED <<ledgerVars, monitorVars, orchestrator, builtins_print,
                   processing>>

\* code_executor.register_function(...) on the agent the global names now,
\* and `return True`
register_function(c, raises) ==
    /\ connecting[c] = "code_executor"
    /\ code_executor' = IF raises THEN code_executor ELSE "claude_execute"
    /\ connecting' = [connecting EXCEPT ![c] =
                         IF raises THEN "False" ELSE "True"]
    /\ last' = NoCall
    /\ UNCHANGED <<ledgerVars, monitorVars, orchestrator, builtins_print,
                   processing>>

\* GET /health: agents_initialized is `orchestrator is not None`
health ==
    /\ last' = [NoCall EXCEPT !.op = "health", !.ok = (orchestrator # "None")]
    /\ UNCHANGED <<ledgerVars, monitorVars, interactiveVars>>

\* handle_message of the send_message event t: return when orchestrator is
\* None, else start the thread of process_with_autogen
handle_message(t) ==
    /\ processing[t].pc = "idle"
    /\ processing' = [processing EXCEPT ![t].pc =
                         IF orchestrator = "None" THEN "returned" ELSE "started"]
    /\ last' = NoCall
    /\ UNCHANGED <<ledgerVars, monitorVars, orchestrator, code_executor,
                   builtins_print, connecting>>

\* original_print = print: the name print is looked up in builtins
original_print(t) ==
    /\ processing[t].pc = "started"
    /\ processing' = [processing EXCEPT ![t] =
                         [pc |-> "bound", original_print |-> builtins_print]]
    /\ last' = NoCall
    /\ UNCHANGED <<ledgerVars, monitorVars, orchestrator, code_executor,
                   builtins_print, connecting>>

\* builtins.print = capture_print, the closure of this thread
capture_print(t) ==
    /\ processing[t].pc = "bound"
    /\ builtins_print' = <<"capture_print", t>>
    /\ processing' = [processing EXCEPT ![t].pc = "patched"]
    /\ last' = NoCall
    /\ UNCHANGED <<ledgerVars, monitorVars, orchestrator, code_executor,
                   connecting>>

\* code_executor.initiate_chat(orchestrator, ...): the global is read now;
\* what it raises (None has no initiate_chat) is caught and reported
initiate_chat(t) ==
    /\ processing[t].pc = "patched"
    /\ processing' = [processing EXCEPT ![t].pc = "chatted"]
    /\ last' = [NoCall EXCEPT !.op = "initiate_chat",
                              !.ok = (code_executor # "None"),
                              !.result = <<code_executor>>]
    /\ UNCHANGED <<ledgerVars, monitorVars, orchestrator, code_executor,
                   builtins_print, connecting>>

\* finally: builtins.print = original_print
restore_print(t) ==
    /\ processing[t].pc = "chatted"
    /\ builtins_print' = processing[t].original_print
    /\ processing' = [processing EXCEPT ![t].pc = "finished"]
    /\ last' = NoCall
    /\ UNCHANGED <<ledgerVars, monitorVars, orchestrator, code_executor,
                   connecting>>

NextInteractive ==
    \/ \E c \in Connections : handle_connect(c)
    \/ \E c \in Connections, raises \in BOOLEAN : AssistantAgent(c, raises)
    \/ \E c \in Connections, raises \in BOOLEAN : UserProxyAgent(c, raises)
    \/ \E c \in Connections, raises \in BOOLEAN : register_function(c, raises)
    \/ health
    \/ \E t \in Threads : handle_message(t)
    \/ \E t \in Threads : original_print(t)
    \/ \E t \in Threads : capture_print(t)
    \/ \E t \in Threads : initiate_chat(t)
    \/ \E t \in Threads : restore_print(t)
SpecInteractive == Init /\ [][NextInteractive]_vars

\* ------------------------------------------------------------ the claims
LogOps == {"log_create", "log_modify", "log_delete"}

\* this step is rollback(id) of the id the call before it returned, and no
\* filesystem call fails in it
RollbackOfReturnedId ==
    /\ last.ok
    /\ last'.op = "rollback"
    /\ last'.id = last.id
    /\ ~last'.fsfail

\* the rolled_back flags of a record list
Flags(ops) == [i \in 1..Len(ops) |-> ops[i].rolled_back]

\* C1: after log_modify(p, old, new) returns id with the file holding new,
\* rollback(id) returns True, leaves p holding exactly old, and the record is
\* marked rolled back.
C1_RoundTripModify ==
    [][ (last.op = "log_modify" /\ files[last.path] = File(last.new)
         /\ RollbackOfReturnedId)
        => /\ last'.ok
           /\ files'[last.path] = File(last.content)
           /\ operations'[Len(operations)].rolled_back ]_vars

\* C2: after log_create(p, c) returns id, rollback(id) returns True, leaves p
\* absent, and the record is marked rolled back.
C2_RoundTripCreate ==
    [][ (last.op = "log_create" /\ RollbackOfReturnedId)
        => /\ last'.ok
           /\ ~files'[last.path].exists
           /\ operations'[Len(operations)].rolled_back ]_vars

\* C3: after log_delete(p, content) returns id with the file absent,
\* rollback(id) returns True and leaves p present with exactly content.
C3_RoundTripDelete ==
    [][ (last.op = "log_delete" /\ ~files[last.path].exists
         /\ RollbackOfReturnedId)
        => /\ last'.ok
           /\ files'[last.path] = File(last.content) ]_vars

\* C4: rollback_all() with no since, on a ledger none of whose records is
\* rolled back, leaves every recorded path in the state it had before the
\* oldest operation recorded on it.
C4_NewestFirst ==
    [][ (/\ last'.op = "rollback_all"
         /\ ~last'.since.given
         /\ ~last'.fsfail
         /\ \A i \in 1..Len(operations) : ~operations[i].rolled_back)
        => \A i \in 1..Len(operations) :
              (\A j \in 1..(i - 1) : operations[j].filepath # operations[i].filepath)
              => files'[operations[i].filepath] = given[i] ]_vars

\* C5: the first rollback(id) of an id of the ledger none of whose records is
\* rolled back returns True and marks a record of that id; a rollback(id)
\* right after one that returned True returns False and changes neither the
\* records, nor operations.json, nor any file or blob.
C5_IdempotentGuard ==
    [][ /\ (/\ last'.op = "rollback"
            /\ ~last'.fsfail
            /\ \E i \in 1..Len(operations) : operations[i].id = last'.id
            /\ \A i \in 1..Len(operations) :
                  operations[i].id = last'.id => ~operations[i].rolled_back)
           => /\ last'.ok
              /\ \E i \in 1..Len(operations) :
                    operations[i].id = last'.id /\ operations'[i].rolled_back
        /\ (last'.op = "rollback" /\ last'.repeat)
           => /\ ~last'.ok
              /\ operations' = operations
              /\ disk' = disk
              /\ files' = files
              /\ backups' = backups ]_vars

\* a second rollback of the same id has just returned, with a file on disk
C5_Witness ==
    /\ last.op = "rollback"
    /\ last.repeat
    /\ ~last.ok
    /\ \E i \in 1..Len(operations) : operations[i].id = last.id /\ operations[i].rolled_back
    /\ \E p \in Paths : files[p].exists

\* C6: rollback(id) with an id no record has returns False and changes
\* neither the records, nor operations.json, nor any file or blob.
C6_UnknownId ==
    [][ (/\ last'.op = "rollback"
         /\ \A i \in 1..Len(operations) : operations[i].id # last'.id)
        => /\ ~last'.ok
           /\ operations' = operations
           /\ disk' = disk
           /\ files' = files
           /\ backups' = backups ]_vars

\* a rollback of an unknown id has just returned on a ledger that holds a
\* record it could have reversed, with a file on disk
C6_Witness ==
    /\ last.op = "rollback"
    /\ ~last.ok
    /\ \A i \in 1..Len(operations) : operations[i].id # last.id
    /\ \E i \in 1..Len(operations) :
          ~operations[i].rolled_back /\ files[operations[i].filepath].exists

\* C7: a rollback(id) that returns False leaves every rolled_back flag as it
\* was, in memory and in operations.json.
C7_FalseLeavesFlags ==
    [][ (last'.op = "rollback" /\ ~last'.ok)
        => /\ Flags(operations') = Flags(operations)
           /\ disk'.state = disk.state
           /\ Flags(disk'.ops) = Flags(disk.ops) ]_vars

\* C8: when rollback(id) returns True for a modify or delete record, the
\* record's blob exists and the file at the record's path holds exactly the
\* blob's content.
C8_TrueMeansRestored ==
    [][ (last'.op = "rollback" /\ last'.ok)
        => \A i \in 1..Len(operations) :
              (/\ operations[i].id = last'.id
               /\ operations[i].type \in {"modify", "delete"}
               /\ ~operations[i].rolled_back
               /\ operations'[i].rolled_back)
              => LET blob == <<operations[i].id,
                               IF operations[i].type = "modify"
                               THEN "backup" ELSE "deleted">>
                 IN  /\ backups'[blob].exists
                     /\ files'[operations[i].filepath] = backups'[blob] ]_vars

\* C9: no two records of the ledger share an id.
C9_UniqueIds ==
    \A i, j \in 1..Len(operations) :
        i # j => operations[i].id # operations[j].id

\* C10: rollback(id) of the id a log_* call has just returned returns True,
\* marks the record that call appended and no other, and touches no file
\* but that record's.
C10_OwnRecord ==
    [][ (last.op \in LogOps /\ RollbackOfReturnedId)
        => /\ last'.ok
           /\ \A i \in 1..Len(operations) :
                 operations'[i].rolled_back
                    = (operations[i].rolled_back \/ i = Len(operations))
           /\ \A p \in Paths \ {last.path} : files'[p] = files[p] ]_vars

\* the record list b holds no record of the list a with its mark taken off
KeepsMarks(a, b) ==
    \A i \in 1..Len(a), j \in 1..Len(b) :
        (a[i].serial = b[j].serial /\ a[i].rolled_back) => b[j].rolled_back

\* C11: no step on one logger takes the rolled_back mark off a record that
\* stays on the in-memory list, and no step takes it off a record that stays
\* in operations.json: a record's rolled_back goes from false to true at most
\* once and never back.
C11_RolledBackOnce ==
    [][ /\ last'.op # "FileOperationLogger" => KeepsMarks(operations, operations')
        /\ KeepsMarks(disk.ops, disk'.ops) ]_vars

\* a call has appended a record after an older record was rolled back, and
\* the older record is marked both on the list and in operations.json
C11_Witness ==
    /\ last.op \in LogOps
    /\ Len(operations) >= 2
    /\ disk.state = "ok"
    /\ Len(disk.ops) >= 2
    /\ operations[1].rolled_back
    /\ disk.ops[1].rolled_back

\* the blob a log_* call writes for the record op
BlobOf(op) ==
    <<op.id, IF op.type = "create" THEN "content"
             ELSE IF op.type = "modify" THEN "backup" ELSE "deleted">>

\* C12: clear_old_logs(days) in which no filesystem call fails removes
\* exactly the records whose timestamp is older than the cutoff, now minus
\* days, whatever their rolled_back; it leaves every blob that stays as it
\* was, and after it a blob is present if and only if its record is on the
\* list.
C12_Pruning ==
    [][ (last'.op = "clear_old_logs" /\ ~last'.fsfail)
        => LET cutoff == clock' - last'.days
           IN  /\ operations' =
                     SelectSeq(operations, LAMBDA op : ~(op.timestamp < cutoff))
               /\ \A b \in BlobNames :
                     /\ backups'[b].exists
                          <=> \E i \in 1..Len(operations') : BlobOf(operations'[i]) = b
                     /\ backups'[b].exists => backups'[b] = backups[b] ]_vars

\* C13: with N records on the list, get_recent_operations(limit = k), k >= 0,
\* returns exactly the last min(N, k) records, in the order of the list.
C13_RecentOperations ==
    [][ last'.op = "get_recent_operations"
        => LET N == Len(operations)
               m == IF last'.limit < N THEN last'.limit ELSE N
           IN  last'.result = SubSeq(operations, N - m + 1, N) ]_vars

\* C14: rollback and rollback_all raise nothing, whatever the id and
\* whichever filesystem call fails in them: rollback returns False when a
\* filesystem call failed in it, and rollback_all returns its count.
C14_RollbackNeverRaises ==
    [][ /\ last'.op = "rollback"
           => ~last'.raised /\ (last'.fsfail => ~last'.ok)
        /\ last'.op = "rollback_all"
           => ~last'.raised /\ last'.ok /\ last'.count \in 0..Len(operations) ]_vars

\* rollback_all has returned after a filesystem call failed in one of its
\* rollbacks, with a record it could not reverse
C14_Witness ==
    /\ last.op = "rollback_all"
    /\ last.fsfail
    /\ ~last.raised
    /\ Len(operations) >= 1
    /\ last.count < Len(operations)

\* C15: log_create, log_modify and log_delete raise nothing, also when
\* writing the blob or saving the list fails.
C15_LogNeverRaises ==
    [][ last'.op \in LogOps => ~last'.raised ]_vars

\* C16: FileOperationLogger() on a log directory whose operations.json holds
\* no JSON text, or cannot be read, raises nothing and leaves an empty list.
C16_CorruptLogLoadsEmpty ==
    [][ (last'.op = "FileOperationLogger"
         /\ (disk.state = "corrupt" \/ last'.fsfail))
        => ~last'.raised /\ last'.ok /\ operations' = <<>> ]_vars

\* a logger has been constructed on a directory with blobs of earlier
\* records and an operations.json cut short by a failed save
C16_Witness ==
    /\ last.op = "FileOperationLogger"
    /\ disk.state = "corrupt"
    /\ operations = <<>>
    /\ ~last.raised
    /\ \E b \in BlobNames : backups[b].exists

\* C17: whichever filesystem call of a log_* call fails, and whenever the
\* process stops and a new logger starts, every record in operations.json
\* has its blob in the backups directory.
C17_BackupBeforeRecord ==
    disk.state = "ok"
        => \A i \in 1..Len(disk.ops) : backups[BlobOf(disk.ops[i])].exists

\* a log_* call has stopped between its blob and its save: operations.json
\* holds an older record, and the blob of the new one is there without it
C17_Witness ==
    /\ last.op \in LogOps
    /\ last.raised
    /\ disk.state = "ok"
    /\ Len(disk.ops) >= 1
    /\ \E b \in BlobNames :
          /\ backups[b].exists
          /\ \A i \in 1..Len(disk.ops) : BlobOf(disk.ops[i]) # b

\* C18: rollback_all returns the number of records whose rolled_back went
\* from false to true during the call.
C18_CountIsReversals ==
    [][ last'.op = "rollback_all"
        => last'.count =
             Cardinality({ i \in 1..Len(operations) :
                             ~operations[i].rolled_back /\ operations'[i].rolled_back }) ]_vars

\* C19: with two loggers on one log directory, when a save is done
\* operations.json holds the list of the logger that wrote last, and nothing
\* of what the other logger had put there: after a log_* call or a
\* successful rollback saved in one piece the file is the caller's list, and
\* after the dump of a save that another logger's calls fell into, the file
\* is the list of the logger that dumped.
C19_LastWriterWins ==
    [][ /\ (/\ last'.op \in LogOps \cup {"rollback"}
            /\ last'.ok
            /\ disk'.due = disk.due)
           => disk'.state = "ok" /\ disk'.ops = operations'
        /\ last'.op = "json_dump"
           => disk'.state = "ok" /\ disk'.ops = disk.due[1] ]_vars

\* C20: after rollback_all() with no since, in which no filesystem call
\* fails, every record on the list is marked rolled back; and a rollback_all()
\* right after such a call returns 0.
C20_AllRolledBack ==
    [][ /\ (last'.op = "rollback_all" /\ ~last'.since.given /\ ~last'.fsfail)
           => \A i \in 1..Len(operations') : operations'[i].rolled_back
        /\ (/\ last.op = "rollback_all" /\ ~last.since.given /\ ~last.fsfail
            /\ last'.op = "rollback_all" /\ ~last'.since.given /\ ~last'.fsfail)
           => last'.count = 0 ]_vars

\* C21: rollback_all(since) in which no filesystem call fails leaves the
\* rolled_back of every record that is older than since, or already rolled
\* back, as it was, and the file of a path all of whose records are such; every
\* other record, one whose timestamp equals since included, is marked rolled
\* back.
C21_SinceFrame ==
    [][ (last'.op = "rollback_all" /\ last'.since.given /\ ~last'.fsfail)
        => LET skipped == { i \in 1..Len(operations) :
                              \/ operations[i].rolled_back
                              \/ operations[i].timestamp < last'.since.t }
           IN  /\ \A i \in skipped :
                     operations'[i].rolled_back = operations[i].rolled_back
               /\ \A i \in (1..Len(operations)) \ skipped :
                     operations'[i].rolled_back
               /\ \A p \in Paths :
                     (\A i \in 1..Len(operations) :
                         operations[i].filepath = p => i \in skipped)
                     => files'[p] = files[p] ]_vars

\* the records of a list, each named by the append that made it
Serials(ops) == [i \in 1..Len(ops) |-> ops[i].serial]
StartsWith(long, short) ==
    /\ Len(short) <= Len(long)
    /\ \A i \in 1..Len(short) : long[i] = short[i]

\* C22: a call of log_create, log_modify, log_delete, rollback, rollback_all
\* or get_recent_operations leaves every record that was on the list on the
\* list, and every record that was in operations.json in operations.json, at
\* the place it had; only clear_old_logs takes records away.
C22_OnlyPruningRemoves ==
    [][ (last'.op \in LogOps \cup {"rollback", "rollback_all", "get_recent_operations"})
        => /\ StartsWith(Serials(operations'), Serials(operations))
           /\ StartsWith(Serials(disk'.ops), Serials(disk.ops)) ]_vars

\* a rollback_all has run on a list of two records, both are in
\* operations.json and both are marked
C22_Witness ==
    /\ last.op = "rollback_all"
    /\ Len(operations) = 2
    /\ Serials(disk.ops) = Serials(operations)
    /\ \A i \in 1..2 : operations[i].rolled_back

\* the record rollback(id) finds: the oldest with that id (0: none)
Found(id) ==
    IF \E i \in 1..Len(operations) : operations[i].id = id
    THEN CHOOSE i \in 1..Len(operations) :
            /\ operations[i].id = id
            /\ \A j \in 1..(i - 1) : operations[j].id # id
    ELSE 0

\* this step is rollback(id) of a create record that is not rolled back and
\* whose file does not exist
RollbackOfAbsentCreate ==
    /\ last'.op = "rollback"
    /\ Found(last'.id) # 0
    /\ operations[Found(last'.id)].type = "create"
    /\ ~operations[Found(last'.id)].rolled_back
    /\ ~files[operations[Found(last'.id)].filepath].exists

\* C23: rollback(id) of a create record whose file is already absent creates
\* and changes no file and no blob, returns True and marks the record rolled
\* back.
C23_AbsentCreateNoOp ==
    [][ RollbackOfAbsentCreate
        => /\ files' = files
           /\ backups' = backups
           /\ last'.ok
           /\ operations'[Found(last'.id)].rolled_back
           /\ Len(operations') = Len(operations) ]_vars

\* rollback of a create record whose file was absent returned True
C23_Witness ==
    /\ last.op = "rollback"
    /\ last.ok
    /\ last.absent
    /\ last.id[1] = "create"
    /\ \E i \in 1..Len(operations) :
          /\ operations[i].id = last.id
          /\ operations[i].rolled_back
          /\ ~files[operations[i].filepath].exists

\* operations.json holds the list the logger holds (no file yet: the empty
\* list), so a new logger would load an equal list
FileIsList ==
    \/ disk.state = "ok" /\ disk.ops = operations
    \/ disk.state = "absent" /\ operations = <<>>

\* C28: a call of log_create, log_modify, log_delete, rollback or
\* clear_old_logs that returns normally on a logger whose list is the one in
\* operations.json leaves operations.json holding the logger's list.
C28_FileMirrorsList ==
    [][ (/\ FileIsList
         /\ last'.op \in LogOps \cup {"rollback", "clear_old_logs"}
         /\ ~last'.raised)
        => FileIsList' ]_vars

\* C24: what GET /api/file-operations returns includes every record the
\* agents' logger holds, and POST /api/rollback/<op_id> with the id of such a
\* record, none of that id rolled back yet, answers success true.
C24_DashboardSeesRecords ==
    [][ /\ last'.op = "get_file_operations"
           => \A i \in 1..Len(operations) :
                 \E j \in 1..Len(last'.result) :
                    last'.result[j].serial = operations[i].serial
        /\ (/\ last'.op = "rollback_operation"
            /\ \E i \in 1..Len(operations) : operations[i].id = last'.id
            /\ \A i \in 1..Len(operations) :
                  operations[i].id = last'.id => ~operations[i].rolled_back)
           => last'.ok ]_vars

\* C25: a file that a call of claude_code_generator records with log_create
\* did not exist before the call.
C25_RecordedFilesAreNew ==
    [][ (/\ last'.op = "claude_code_generator"
         /\ Len(operations') = Len(operations) + 1)
        => ~files[last'.path].exists ]_vars

\* the conversations whose status is "active"
Active == { i \in 1..Len(conversations) : conversations[i].status = "active" }

\* C29: at most one conversation of the monitor has the status "active", it
\* is the current conversation, and /api/stats reports 0 or 1 active
\* conversations.
C29_OneActiveConversation ==
    /\ Cardinality(Active) <= 1
    /\ \A i \in Active : i = current_conversation
    /\ last.op = "get_stats" => last.count <= 1

\* C30: no call appends a message to a conversation whose status is
\* "completed": its messages stay as they are.
C30_CompletedIsClosed ==
    [][ \A i \in 1..Len(conversations) :
           conversations[i].status = "completed"
           => conversations'[i].messages = conversations[i].messages ]_vars

\* C26: when no process_with_autogen thread is running and one has
\* finished, builtins.print is the print function it was at the start.
C26_PrintRestored ==
    (/\ \A t \in Threads : processing[t].pc \in {"idle", "returned", "finished"}
     /\ \E t \in Threads : processing[t].pc = "finished")
    => builtins_print = "print"

\* C27: when a thread of handle_message calls initiate_chat, code_executor
\* is an agent with claude_execute registered; and /health answers
\* agents_initialized true only when a call of init_agents has returned True.
C27_AgentsInitialized ==
    [][ /\ last'.op = "initiate_chat" => last'.result = <<"claude_execute">>
        /\ (last'.op = "health" /\ last'.ok)
           => \E c \in Connections : connecting[c] = "True" ]_vars
====
